---- MODULE Spec2Model ----
(***************************************************************************)
(* Model of pdc/azure_BlobStorageConnection.py: the context manager        *)
(* AzureBlobStorageConnection around the SDK's BlobServiceClient.          *)
(*                                                                         *)
(* State: the wrapper objects (their three attributes), the SDK clients    *)
(* constructed so far (with the number of close() calls each received),    *)
(* the with-statements ("scopes") callers have started, the trace of       *)
(* observable events (SDK calls, printed lines, scope bodies) and the      *)
(* outcome of the last call as the caller sees it.                         *)
(***************************************************************************)
EXTENDS Integers, Sequences, FiniteSets, TLC

\* ---------------------------------------------------------------- bounds
MaxScopes == 2        \* with-statements a run may start
MaxDirectExits == 1   \* __exit__ calls made outside a with-statement

\* the wrapper objects a run may construct
Inst == {"A", "B"}

\* ------------------------------------------------------------ the values
None == 0             \* Python's None, for a client handle and a return value
NoError == "NoError"  \* a call that returned normally

Urls == {"https://acct.blob.example", "not a url"}
Creds == {"validkey", "badkey"}
ValidUrls == {"https://acct.blob.example"}
ValidCreds == {"validkey"}

BodyErrors == {NoError, "ValueError"}

\* an observable event: an SDK call (with its outcome), a printed line,
\* or the completion of a scope body
Ev(kind, client, ok) == [kind |-> kind, client |-> client, ok |-> ok]

VARIABLES
    conn,        \* conn[i]: the attributes of wrapper object i, or NoObject
    sdkClients,  \* sdkClients[k]: the k-th BlobServiceClient ever constructed
    scopes,      \* scopes[s]: the s-th with-statement started
    trace,       \* the observable events so far, each tagged with inst and scope
    last,        \* the last call and what it did, as its caller sees it
    directExits  \* number of __exit__ calls made outside a with-statement

vars == <<conn, sdkClients, scopes, trace, last, directExits>>

NoObject == [storage_url |-> "", credential |-> "", blob_service_client |-> None,
             exists |-> FALSE]

\* ------------------------------------------------------------- the SDK
\* BlobServiceClient(url, credential=...): "ok" or the error it raises
BlobServiceClient(storage_url, credential) ==
    IF storage_url \notin ValidUrls THEN "InvalidEndpointError"
    ELSE IF credential \notin ValidCreds THEN "AuthenticationError"
    ELSE "ok"

\* the record the SDK keeps for a freshly constructed client
NewClient(i, storage_url, credential) ==
    [owner |-> i, url |-> storage_url, cred |-> credential,
     closeCalls |-> 0, closed |-> FALSE]

\* client.close(): counts the call; the client is closed if close returned
Close(clients, k, closeOk) ==
    [clients EXCEPT ![k].closeCalls = @ + 1,
                    ![k].closed = @ \/ closeOk]

\* ------------------------------------------------------- the wrapper
\* the url is stored in both attributes
init_stores_url_twice(storage_url, credential) ==
    [storage_url |-> storage_url, credential |-> storage_url,
     blob_service_client |-> None, exists |-> TRUE]

\* __init__: stores the two parameters, no client
__init__(storage_url, credential) ==
    [storage_url |-> storage_url, credential |-> credential,
     blob_service_client |-> None, exists |-> TRUE]

\* variants of __enter__ and __exit__ with a plausible slip each
\* pooling: an object that already holds a client hands that one out again
enter_reuses_client(self, ctor, k) ==
    IF ctor # "ok"
    THEN [self |-> self, ret |-> None, err |-> ctor, origin |-> "sdk",
          events |-> <<Ev("sdk_ctor", None, FALSE)>>]
    ELSE LET h == IF self.blob_service_client # None THEN self.blob_service_client ELSE k
         IN [self |-> [self EXCEPT !.blob_service_client = h],
             ret |-> h, err |-> NoError, origin |-> "",
             events |-> <<Ev("sdk_ctor", h, TRUE), Ev("print_open", None, TRUE)>>]

\* the line is printed before the client is constructed
enter_prints_first(self, ctor, k) ==
    IF ctor # "ok"
    THEN [self |-> self, ret |-> None, err |-> ctor, origin |-> "sdk",
          events |-> <<Ev("print_open", None, TRUE), Ev("sdk_ctor", None, FALSE)>>]
    ELSE [self |-> [self EXCEPT !.blob_service_client = k],
          ret |-> k, err |-> NoError, origin |-> "",
          events |-> <<Ev("print_open", None, TRUE), Ev("sdk_ctor", k, TRUE)>>]

\* the return statement is missing
enter_returns_none(self, ctor, k) ==
    IF ctor # "ok"
    THEN [self |-> self, ret |-> None, err |-> ctor, origin |-> "sdk",
          events |-> <<Ev("sdk_ctor", None, FALSE)>>]
    ELSE [self |-> [self EXCEPT !.blob_service_client = k],
          ret |-> None, err |-> NoError, origin |-> "",
          events |-> <<Ev("sdk_ctor", k, TRUE), Ev("print_open", None, TRUE)>>]

\* __enter__: construct the client from the stored parameters, store it,
\* print, return it.  ctor is the outcome of the SDK constructor and k the
\* identity of the object it returns.  A raising constructor leaves the
\* assignment of line 17 undone and nothing is printed.
__enter__(self, ctor, k) ==
    IF ctor # "ok"
    THEN [self |-> self, ret |-> None, err |-> ctor, origin |-> "sdk",
          events |-> <<Ev("sdk_ctor", None, FALSE)>>]
    ELSE [self |-> [self EXCEPT !.blob_service_client = k],
          ret |-> k, err |-> NoError, origin |-> "",
          events |-> <<Ev("sdk_ctor", k, TRUE), Ev("print_open", None, TRUE)>>]

\* the shape shared by the variants of __exit__ on a stored client
ExitResult(self, err, ret, events) ==
    [self |-> self, ret |-> ret, err |-> err,
     origin |-> IF err = NoError THEN "" ELSE "sdk", events |-> events]

ExitOnNone(self) ==
    [self |-> self, ret |-> None, err |-> "AttributeError", origin |-> "wrapper",
     events |-> << >>]

\* close() is called twice
exit_closes_twice(self, closeOk) ==
    LET h == self.blob_service_client IN
    IF h = None THEN ExitOnNone(self)
    ELSE IF ~closeOk THEN ExitResult(self, "CloseError", None, <<Ev("sdk_close", h, FALSE)>>)
    ELSE ExitResult(self, NoError, None,
            <<Ev("sdk_close", h, TRUE), Ev("sdk_close", h, TRUE),
              Ev("print_close", None, TRUE)>>)

\* close() is not called
exit_skips_close(self, closeOk) ==
    LET h == self.blob_service_client IN
    IF h = None THEN ExitOnNone(self)
    ELSE ExitResult(self, NoError, None, <<Ev("print_close", None, TRUE)>>)

\* the handle is set back to None after the close
exit_resets_handle(self, closeOk) ==
    LET h == self.blob_service_client
        cleared == [self EXCEPT !.blob_service_client = None] IN
    IF h = None THEN ExitOnNone(self)
    ELSE IF ~closeOk THEN ExitResult(self, "CloseError", None, <<Ev("sdk_close", h, FALSE)>>)
    ELSE ExitResult(cleared, NoError, None,
            <<Ev("sdk_close", h, TRUE), Ev("print_close", None, TRUE)>>)

\* the line is printed in a finally clause, also when close() raised
exit_prints_always(self, closeOk) ==
    LET h == self.blob_service_client IN
    IF h = None THEN ExitOnNone(self)
    ELSE ExitResult(self, IF closeOk THEN NoError ELSE "CloseError", None,
            <<Ev("sdk_close", h, closeOk), Ev("print_close", None, TRUE)>>)

\* the method returns True
exit_returns_true(self, closeOk) ==
    LET h == self.blob_service_client IN
    IF h = None THEN ExitOnNone(self)
    ELSE IF ~closeOk THEN ExitResult(self, "CloseError", 1, <<Ev("sdk_close", h, FALSE)>>)
    ELSE ExitResult(self, NoError, 1,
            <<Ev("sdk_close", h, TRUE), Ev("print_close", None, TRUE)>>)

\* __exit__: call close() on the stored client, then print.  On a None
\* handle the attribute lookup of line 27 raises before any SDK call.  A
\* raising close() skips the print.  The handle is left as it is and the
\* method returns None.
__exit__(self, closeOk) ==
    IF self.blob_service_client = None
    THEN [self |-> self, ret |-> None, err |-> "AttributeError", origin |-> "wrapper",
          events |-> << >>]
    ELSE IF ~closeOk
    THEN [self |-> self, ret |-> None, err |-> "CloseError", origin |-> "sdk",
          events |-> <<Ev("sdk_close", self.blob_service_client, FALSE)>>]
    ELSE [self |-> self, ret |-> None, err |-> NoError, origin |-> "",
          events |-> <<Ev("sdk_close", self.blob_service_client, TRUE),
                       Ev("print_close", None, TRUE)>>]

\* ------------------------------------------------- the with-statement
\* what leaves the with-statement: an error raised by __exit__ replaces the
\* body's; a body error is swallowed only if __exit__ returned a true value
Propagated(bodyErr, x) ==
    IF x.err # NoError THEN x.err
    ELSE IF bodyErr # NoError /\ x.ret = None THEN bodyErr
    ELSE NoError

\* the events of a call, tagged with the object and the scope they belong to
Tagged(events, i, s) ==
    [n \in 1..Len(events) |->
        [kind |-> events[n].kind, client |-> events[n].client, ok |-> events[n].ok,
         inst |-> i, scope |-> s]]

\* the SDK clients after the close calls among the events of a call
RECURSIVE ApplyCloses(_, _)
ApplyCloses(clients, events) ==
    IF events = << >> THEN clients
    ELSE LET e == Head(events) IN
         ApplyCloses(IF e.kind = "sdk_close" THEN Close(clients, e.client, e.ok)
                     ELSE clients,
                     Tail(events))

ActiveOn(i) == {s \in 1..Len(scopes) : scopes[s].inst = i /\ scopes[s].state = "active"}

\* the attributes live in one class object shared by all instances
set_class_attributes(c, i, self) ==
    [j \in Inst |-> IF j = i THEN self
                    ELSE IF c[j].exists
                    THEN [c[j] EXCEPT !.blob_service_client = self.blob_service_client]
                    ELSE c[j]]

\* "self.<attribute> = ...": the assignments of a method reach the
\* attributes of the object it was called on, and of no other object
SetSelf(c, i, self) == [c EXCEPT ![i] = self]

Call(op, i, s, pre, x, prop) ==
    [op |-> op, inst |-> i, scope |-> s, pre |-> pre, err |-> x.err,
     origin |-> x.origin, ret |-> x.ret, events |-> x.events, propagated |-> prop]

\* ------------------------------------------------------------- actions
Init ==
    /\ conn = [i \in Inst |-> NoObject]
    /\ sdkClients = << >>
    /\ scopes = << >>
    /\ trace = << >>
    /\ last = [op |-> "none", inst |-> "", scope |-> 0, pre |-> None, err |-> NoError,
               origin |-> "", ret |-> None, events |-> << >>, propagated |-> NoError]
    /\ directExits = 0

\* AzureBlobStorageConnection(storage_url, credential)
New(i, u, c) ==
    /\ ~conn[i].exists
    /\ conn' = SetSelf(conn, i, __init__(u, c))
    /\ last' = [op |-> "init", inst |-> i, scope |-> 0, pre |-> None, err |-> NoError,
                origin |-> "", ret |-> None, events |-> << >>, propagated |-> NoError]
    /\ UNCHANGED <<sdkClients, scopes, trace, directExits>>

\* "with conn as h:" reaches __enter__
WithEnter(i) ==
    /\ conn[i].exists
    /\ Len(scopes) < MaxScopes
    /\ LET s == Len(scopes) + 1
           k == Len(sdkClients) + 1
           ctor == BlobServiceClient(conn[i].storage_url, conn[i].credential)
           x == __enter__(conn[i], ctor, k)
           ok == x.err = NoError
           overl == ok /\ ActiveOn(i) # {}
       IN /\ conn' = SetSelf(conn, i, x.self)
          /\ sdkClients' = IF ctor = "ok"
                           THEN Append(sdkClients,
                                   NewClient(i, conn[i].storage_url, conn[i].credential))
                           ELSE sdkClients
          /\ scopes' = Append(
                 [t \in 1..Len(scopes) |->
                     IF overl /\ t \in ActiveOn(i)
                     THEN [scopes[t] EXCEPT !.overlapped = TRUE] ELSE scopes[t]],
                 [inst |-> i, handle |-> x.ret,
                  state |-> IF ok THEN "active" ELSE "enter_failed",
                  bodyErr |-> NoError, propagated |-> x.err,
                  exitClient |-> None, exitErr |-> NoError, closesAtLeave |-> 0,
                  overlapped |-> overl])
          /\ trace' = trace \o Tagged(x.events, i, s)
          /\ last' = Call("enter", i, s, conn[i].blob_service_client, x, x.err)
    /\ UNCHANGED directExits

\* the body of scope s ends, normally or with an error, and the
\* with-statement calls __exit__
WithLeave(s, bodyErr, closeOk) ==
    /\ s \in 1..Len(scopes)
    /\ scopes[s].state = "active"
    /\ LET i == scopes[s].inst
           x == __exit__(conn[i], closeOk)
           prop == Propagated(bodyErr, x)
           clients == ApplyCloses(sdkClients, x.events)
       IN /\ conn' = SetSelf(conn, i, x.self)
          /\ sdkClients' = clients
          /\ scopes' = [scopes EXCEPT ![s] =
                 [@ EXCEPT !.state = "left", !.bodyErr = bodyErr, !.propagated = prop,
                           !.exitClient = IF x.events # << >> THEN x.events[1].client
                                          ELSE None,
                           !.exitErr = x.err,
                           !.closesAtLeave = clients[scopes[s].handle].closeCalls]]
          /\ trace' = trace \o Tagged(<<Ev("body", scopes[s].handle, bodyErr = NoError)>>
                                       \o x.events, i, s)
          /\ last' = Call("leave", i, s, conn[i].blob_service_client, x, prop)
    /\ UNCHANGED directExits

\* conn.__exit__(None, None, None) called by hand, at any time, also while
\* a scope of the object is active
DirectExit(i, closeOk) ==
    /\ conn[i].exists
    /\ directExits < MaxDirectExits
    /\ LET x == __exit__(conn[i], closeOk)
       IN /\ conn' = SetSelf(conn, i, x.self)
          /\ sdkClients' = ApplyCloses(sdkClients, x.events)
          /\ trace' = trace \o Tagged(x.events, i, 0)
          /\ last' = Call("exit", i, 0, conn[i].blob_service_client, x, x.err)
    /\ directExits' = directExits + 1
    /\ UNCHANGED scopes

Next ==
    \/ \E i \in Inst, u \in Urls, c \in Creds : New(i, u, c)
    \/ \E i \in Inst : WithEnter(i)
    \/ \E s \in 1..MaxScopes, bodyErr \in BodyErrors, closeOk \in BOOLEAN :
           WithLeave(s, bodyErr, closeOk)
    \/ \E i \in Inst, closeOk \in BOOLEAN : DirectExit(i, closeOk)

Spec == Init /\ [][Next]_vars

\* the runs in which a single object is constructed and used: what is
\* stated of each object by itself is checked on these, what is stated of
\* two objects side by side on Spec
NextSingle ==
    \/ \E u \in Urls, c \in Creds : New("A", u, c)
    \/ WithEnter("A")
    \/ \E s \in 1..MaxScopes, bodyErr \in BodyErrors, closeOk \in BOOLEAN :
           WithLeave(s, bodyErr, closeOk)
    \/ \E closeOk \in BOOLEAN : DirectExit("A", closeOk)

SpecSingle == Init /\ [][NextSingle]_vars

TypeOK ==
    /\ \A i \in Inst : conn[i].blob_service_client \in 0..Len(sdkClients)
    /\ Len(scopes) <= MaxScopes
    /\ directExits <= MaxDirectExits

\* ------------------------------------------------- what the claims speak of
Scopes == 1..Len(scopes)
Left == {s \in Scopes : scopes[s].state = "left"}
Entered == {s \in Scopes : scopes[s].state # "enter_failed"}
ClientsOf(i) == {k \in 1..Len(sdkClients) : sdkClients[k].owner = i}

\* the most recent with-statement started on object i (0 if none)
LatestScopeOn(i) ==
    LET S == {s \in Scopes : scopes[s].inst = i} IN
    IF S = {} THEN 0 ELSE CHOOSE s \in S : \A t \in S : t <= s

\* the position in the trace of the event of the given kind of scope s
PosOf(kind, s) ==
    CHOOSE n \in 1..Len(trace) : trace[n].scope = s /\ trace[n].kind = kind

\* while scope s was active, __exit__ was called by hand on its object
ExitedByHand(s) ==
    \E n \in 1..Len(trace) :
        /\ trace[n].scope = 0 /\ trace[n].kind = "sdk_close"
        /\ trace[n].inst = scopes[s].inst
        /\ PosOf("sdk_ctor", s) < n
        /\ scopes[s].state = "left" => n < PosOf("body", s)

\* between the __enter__ and the __exit__ of scope s no other call was made
\* on its object: no other scope of the object was active and no __exit__
\* was called by hand
Exclusive(s) == ~scopes[s].overlapped /\ ~ExitedByHand(s)

\* the error the precondition check of an exit operation is to raise; the
\* methods of the class raise it nowhere
IllegalStateError == "IllegalStateError"

Kinds(events) == [n \in 1..Len(events) |-> events[n].kind]
HasKind(events, kind) == \E n \in 1..Len(events) : events[n].kind = kind
EventsOfScope(s) == SelectSeq(trace, LAMBDA e : e.scope = s)

\* ---------------------------------------------------------------- C1
\* C1 as stated: every scope that has been left had close invoked exactly
\* once on the client its __enter__ returned, by the time it was left.
C1_AsStated ==
    \A s \in Left : scopes[s].closesAtLeave = 1

\* C1 (amended): a scope that has been left, and during which no other call
\* was made on the same object (no other scope of it was active, no __exit__
\* was called by hand), had close invoked exactly once on the client its
\* __enter__ returned, by its own __exit__, whether the body completed
\* normally or raised.
C1_CloseOncePerScope ==
    \A s \in Left : Exclusive(s) =>
        /\ scopes[s].closesAtLeave = 1
        /\ scopes[s].exitClient = scopes[s].handle

C1_Witness ==
    \E s, t \in Left :
        /\ Exclusive(s) /\ scopes[s].bodyErr = NoError
        /\ Exclusive(t) /\ scopes[t].bodyErr = "ValueError"
        /\ scopes[s].inst = scopes[t].inst
        /\ scopes[s].closesAtLeave = 1 /\ scopes[t].closesAtLeave = 1

\* ---------------------------------------------------------------- C2
\* C2: the stored handle is non-null only while a scope of the object is
\* active: it is null after construction, after a failed __enter__ and again
\* after __exit__ has run.  __exit__ never assigns the handle, so this fails
\* once a scope has been left.
C2_AsStated ==
    \A i \in Inst : conn[i].blob_service_client # None => ActiveOn(i) # {}

\* ---------------------------------------------------------------- C3
\* a hand-made __exit__ has just run on an object whose most recent scope
\* was entered successfully and has been left
SecondExit ==
    /\ last.op = "exit"
    /\ LatestScopeOn(last.inst) \in Left

\* C3: such a second __exit__ fails with an IllegalStateError and invokes no
\* close.  The handle is still stored, so it closes the client once more.
C3_AsStated ==
    SecondExit =>
        /\ last.err = IllegalStateError
        /\ ~HasKind(last.events, "sdk_close")

\* ---------------------------------------------------------------- C4
\* C4: an __exit__ on an object on which no __enter__ ever succeeded fails
\* with an IllegalStateError raised by a precondition check of the wrapper,
\* invokes no close and prints nothing.  The method has no such check: the
\* call fails with the AttributeError of the attribute lookup on None.
C4_AsStated ==
    (last.op = "exit" /\ ClientsOf(last.inst) = {}) =>
        /\ last.err = IllegalStateError
        /\ last.origin = "wrapper"
        /\ last.events = << >>

\* ---------------------------------------------------------------- C5
\* the SDK constructor has just raised inside __enter__
EnterFailed == last.op = "enter" /\ last.err # NoError

\* a hand-made __exit__ has just run on an object whose most recent
\* __enter__ failed
ExitAfterFailedEnter ==
    /\ last.op = "exit"
    /\ LatestScopeOn(last.inst) # 0
    /\ scopes[LatestScopeOn(last.inst)].state = "enter_failed"

\* C5: when the constructor fails inside __enter__ the error reaches the
\* caller, nothing is printed and no handle is stored afterwards, so that a
\* following __exit__ fails its precondition check instead of closing a
\* client.  All of it holds but the check: the following __exit__ fails with
\* the AttributeError of the attribute lookup on None.
C5_AsStated ==
    /\ EnterFailed =>
          /\ last.propagated = last.err
          /\ ~HasKind(last.events, "print_open")
          /\ conn[last.inst].blob_service_client = None
    /\ ExitAfterFailedEnter =>
          /\ last.err = IllegalStateError
          /\ ~HasKind(last.events, "sdk_close")

\* ---------------------------------------------------------------- C6
\* the close call of the last __exit__ raised
CloseRaised ==
    /\ last.op \in {"exit", "leave"}
    /\ \E n \in 1..Len(last.events) :
           last.events[n].kind = "sdk_close" /\ ~last.events[n].ok

\* C6 as stated: an error raised by close propagates to the caller, after
\* "close connection" has been printed.
C6_AsStated ==
    CloseRaised =>
        /\ last.propagated = "CloseError"
        /\ HasKind(last.events, "print_close")

\* C6 (amended): an error raised by close propagates to the caller, replacing
\* an error of the body if there is one, and "close connection" is not
\* printed by that __exit__.
C6_CloseErrorPropagatesUnlogged ==
    CloseRaised =>
        /\ last.err = "CloseError"
        /\ last.propagated = "CloseError"
        /\ Kinds(last.events) = <<"sdk_close">>

C6_Witness ==
    /\ CloseRaised
    /\ last.op = "leave"
    /\ scopes[last.scope].bodyErr = "ValueError"
    /\ last.propagated = "CloseError"

\* ---------------------------------------------------------------- C7
\* C7: when the body of a scope raised and close returned, __exit__ has run
\* (close was invoked on the stored client) and the error that leaves the
\* with-statement is the body's.
C7_BodyErrorRepropagates ==
    \A s \in Left :
        (scopes[s].bodyErr # NoError /\ scopes[s].exitErr = NoError) =>
            /\ scopes[s].propagated = scopes[s].bodyErr
            /\ scopes[s].exitClient # None
            /\ Kinds(EventsOfScope(s))[Len(EventsOfScope(s)) - 1] = "sdk_close"

C7_Witness ==
    /\ last.op = "leave"
    /\ scopes[last.scope].bodyErr = "ValueError"
    /\ scopes[last.scope].exitErr = NoError
    /\ last.propagated = "ValueError"

\* ---------------------------------------------------------------- C8
\* the events of scope s are, in this order and once each: client
\* constructed, "open connection" printed, body, close invoked on that
\* client, "close connection" printed
OrderedEvents(s) ==
    LET ev == EventsOfScope(s) IN
    /\ Kinds(ev) = <<"sdk_ctor", "print_open", "body", "sdk_close", "print_close">>
    /\ ev[1].client = scopes[s].handle
    /\ ev[4].client = scopes[s].handle

\* the events of the object of scope s from the constructor call of s to the
\* "close connection" line of s
EventsDuring(s) ==
    SelectSeq(SubSeq(trace, PosOf("sdk_ctor", s), PosOf("print_close", s)),
              LAMBDA e : e.inst = scopes[s].inst)

\* C8 as stated: every scope whose __enter__ and close succeeded has the
\* ordered events, the close being invoked on the client of the scope.
C8_AsStated ==
    \A s \in Left : scopes[s].exitErr = NoError => OrderedEvents(s)

\* C8 (amended): a scope whose __enter__ and close succeeded, and during
\* which no other call was made on the same object (no other scope of it was
\* active, no __exit__ was called by hand), has the ordered events, the close
\* being invoked on the client of the scope, and the object emitted no other
\* event from the first of them to the last.
C8_EventOrder ==
    \A s \in Left :
        (scopes[s].exitErr = NoError /\ Exclusive(s)) =>
            /\ OrderedEvents(s)
            /\ Len(EventsDuring(s)) = 5

\* two scopes of one object, one after the other, both with the ordered events
C8_Witness ==
    /\ Left = Scopes
    /\ Len(scopes) = 2
    /\ scopes[1].inst = scopes[2].inst
    /\ \A s \in Left : scopes[s].exitErr = NoError /\ Exclusive(s)
    /\ Kinds(trace) = <<"sdk_ctor", "print_open", "body", "sdk_close", "print_close",
                        "sdk_ctor", "print_open", "body", "sdk_close", "print_close">>
    /\ trace[4].client = 1 /\ trace[9].client = 2

\* ---------------------------------------------------------------- C9
\* C9: scopes of one object that do not overlap get a client each that no
\* earlier __enter__ returned, and the __exit__ of each closes the client of
\* that scope.
C9_FreshClientPerScope ==
    /\ \A s, t \in Entered :
          (s < t /\ scopes[s].inst = scopes[t].inst
                 /\ ~scopes[s].overlapped /\ ~scopes[t].overlapped) =>
              /\ scopes[s].handle # scopes[t].handle
              /\ scopes[t].handle \notin {scopes[r].handle : r \in 1..(t - 1)}
    /\ \A s \in Left : ~scopes[s].overlapped =>
          /\ scopes[s].exitClient = scopes[s].handle
          /\ sdkClients[scopes[s].handle].owner = scopes[s].inst

C9_Witness ==
    \E s, t \in Left :
        /\ s < t /\ scopes[s].inst = scopes[t].inst
        /\ ~scopes[s].overlapped /\ ~scopes[t].overlapped
        /\ scopes[s].exitClient = 1 /\ scopes[t].exitClient = 2

\* ---------------------------------------------------------------- C10
\* C10 as stated: while no scope of an object is active, close has been
\* invoked on every client any __enter__ of the object constructed.
C10_AsStated ==
    \A i \in Inst : ActiveOn(i) = {} =>
        \A k \in ClientsOf(i) : sdkClients[k].closeCalls >= 1

\* C10 (amended): while no scope of an object is active, close has been
\* invoked on every client constructed by those scopes of the object that
\* did not overlap another scope of the same object.
C10_NoLeakWithoutOverlap ==
    \A i \in Inst : ActiveOn(i) = {} =>
        \A s \in Entered : (scopes[s].inst = i /\ ~scopes[s].overlapped) =>
            sdkClients[scopes[s].handle].closeCalls >= 1

C10_Witness ==
    \E i \in Inst :
        /\ ActiveOn(i) = {}
        /\ Cardinality(ClientsOf(i)) = 2
        /\ \A k \in ClientsOf(i) : sdkClients[k].closeCalls = 1
        /\ \E s \in Left : scopes[s].inst = i /\ scopes[s].bodyErr = "ValueError"

\* ---------------------------------------------------------------- C11
\* the close calls made so far by the __exit__ of an object all went to
\* clients that the __enter__ of the same object constructed
ClosesOwnClients(tr, clients) ==
    \A n \in 1..Len(tr) :
        tr[n].kind = "sdk_close" => clients[tr[n].client].owner = tr[n].inst

\* C11: however the scopes of two objects are interleaved, the __exit__ of
\* an object closes only clients constructed by the __enter__ of that object,
\* and a step changes the stored endpoint, credential or handle of an object
\* only if it is a call on that very object.
C11_NoInterference ==
    [][/\ ClosesOwnClients(trace', sdkClients')
       /\ \A i \in Inst :
             conn'[i] # conn[i] => (last' # last /\ last'.inst = i)]_vars

\* enter A, enter B, exit A, exit B
C11_Witness ==
    /\ Len(scopes) = 2
    /\ scopes[1].inst = "A" /\ scopes[2].inst = "B"
    /\ Left = Scopes
    /\ Kinds(trace) = <<"sdk_ctor", "print_open", "sdk_ctor", "print_open",
                        "body", "sdk_close", "print_close",
                        "body", "sdk_close", "print_close">>
    /\ trace[6].client = 1 /\ trace[6].inst = "A"
    /\ trace[9].client = 2 /\ trace[9].inst = "B"
    /\ conn["A"].blob_service_client = 1 /\ conn["B"].blob_service_client = 2

\* ---------------------------------------------------------------- C12
\* C12: the step that constructs an object stores the endpoint and the
\* credential it was given and a null handle, and nothing else happens: no
\* SDK client is constructed, no SDK call is made, nothing is printed, and
\* no other object is touched.
C12_ConstructionOnlyStores ==
    [][\A i \in Inst : (~conn[i].exists /\ conn'[i].exists) =>
          /\ \E u \in Urls, c \in Creds :
                /\ New(i, u, c)
                /\ conn'[i].storage_url = u
                /\ conn'[i].credential = c
          /\ conn'[i].blob_service_client = None
          /\ sdkClients' = sdkClients
          /\ trace' = trace
          /\ last'.op = "init" /\ last'.inst = i /\ last'.events = << >>
          /\ last'.err = NoError
          /\ \A j \in Inst \ {i} : conn'[j] = conn[j]]_vars

\* an object has just been constructed next to one that has a client
C12_Witness ==
    /\ last.op = "init"
    /\ conn[last.inst].exists
    /\ conn[last.inst].blob_service_client = None
    /\ conn[last.inst].storage_url \in ValidUrls
    /\ conn[last.inst].credential = "badkey"
    /\ ClientsOf(last.inst) = {}
    /\ \E j \in Inst : conn[j].blob_service_client # None

\* ---------------------------------------------------------------- C13
\* what C13 says of a state, but for the close call of the matching __exit__
HandleAndParameters(cn, clients, sc, l) ==
    \* a successful __enter__ returns the client it has just stored
    /\ (l.op = "enter" /\ l.err = NoError) =>
          /\ l.ret # None
          /\ l.ret = cn[l.inst].blob_service_client
          /\ sc[l.scope].handle = l.ret
    \* which the SDK built from the stored endpoint and credential
    /\ \A s \in 1..Len(sc) : sc[s].state # "enter_failed" =>
          /\ clients[sc[s].handle].owner = sc[s].inst
          /\ clients[sc[s].handle].url = cn[sc[s].inst].storage_url
          /\ clients[sc[s].handle].cred = cn[sc[s].inst].credential

\* once an object exists its endpoint and credential stay as they are
ParametersKept ==
    \A i \in Inst : conn[i].exists =>
        /\ conn'[i].exists
        /\ conn'[i].storage_url = conn[i].storage_url
        /\ conn'[i].credential = conn[i].credential

\* C13 as stated: __enter__ returns the client it stores, built from the
\* stored endpoint and credential; the __exit__ of every scope calls close on
\* exactly the client the __enter__ of that scope returned; the stored
\* endpoint and credential never change.
C13_AsStated ==
    [][/\ HandleAndParameters(conn', sdkClients', scopes', last')
       /\ \A s \in 1..Len(scopes') : scopes'[s].state = "left" =>
             scopes'[s].exitClient = scopes'[s].handle
       /\ ParametersKept]_vars

\* C13 (amended): __enter__ returns the client it stores, built from the
\* stored endpoint and credential; __exit__ calls close on the client the
\* object stores at that moment, which is the client the __enter__ of the
\* same scope returned whenever no other scope of the object overlapped it;
\* the stored endpoint and credential never change.
C13_HandleIsStoredClient ==
    [][/\ HandleAndParameters(conn', sdkClients', scopes', last')
       /\ (last' # last /\ last'.op \in {"leave", "exit"} /\ last'.pre # None) =>
             /\ last'.events[1].kind = "sdk_close"
             /\ last'.events[1].client = conn[last'.inst].blob_service_client
       /\ \A s \in 1..Len(scopes') :
             (scopes'[s].state = "left" /\ ~scopes'[s].overlapped) =>
                 scopes'[s].exitClient = scopes'[s].handle
       /\ ParametersKept]_vars

C13_Witness ==
    /\ last.op = "leave"
    /\ ~scopes[last.scope].overlapped
    /\ scopes[last.scope].handle = 2
    /\ scopes[last.scope].exitClient = 2
    /\ conn[last.inst].blob_service_client = 2
    /\ sdkClients[2].url = conn[last.inst].storage_url
    /\ sdkClients[2].cred = conn[last.inst].credential
    /\ sdkClients[1].owner = last.inst

\* ---------------------------------------------------------------- C14
\* event m of the trace is a successful constructor call made by object i
ConstructedAt(m, i) ==
    trace[m].kind = "sdk_ctor" /\ trace[m].ok /\ trace[m].inst = i

\* the close call at position n of the trace goes to the client of the last
\* successful constructor call its object made before it
ClosesLatest(n) ==
    \E m \in 1..(n - 1) :
        /\ ConstructedAt(m, trace[n].inst)
        /\ trace[m].client = trace[n].client
        /\ \A j \in (m + 1)..(n - 1) : ~ConstructedAt(j, trace[n].inst)

\* scope t was entered on the object of scope s while s was active
Reentered(s, t) ==
    /\ s < t
    /\ scopes[s].inst = scopes[t].inst
    /\ scopes[s].state # "enter_failed" /\ scopes[t].state # "enter_failed"
    /\ scopes[s].state = "left" => PosOf("sdk_ctor", t) < PosOf("body", s)

\* the close calls on client k among the events from position a to b
ClosesOn(k, a, b) ==
    {n \in a..b : trace[n].kind = "sdk_close" /\ trace[n].client = k}

\* C14 as stated: every close call of __exit__ goes to the client of the most
\* recent successful __enter__ of the object, and when a scope is entered on
\* an object whose scope is still active, the client of the outer scope has
\* no close call at all, the __exit__ calls closing the inner client.
C14_AsStated ==
    /\ \A n \in 1..Len(trace) :
          trace[n].kind = "sdk_close" => ClosesLatest(n)
    /\ \A s, t \in Scopes : Reentered(s, t) =>
          /\ sdkClients[scopes[s].handle].closeCalls = 0
          /\ \A u \in {s, t} : scopes[u].state = "left" =>
                scopes[u].exitClient # scopes[s].handle

\* C14 (amended): every close call of __exit__ goes to the client of the most
\* recent successful __enter__ of the object.  Hence, when a scope is entered
\* on an object whose scope is still active, the client of the outer scope
\* gets no close call from then on, and none at all unless __exit__ was
\* called by hand on the object between the two __enter__ calls: the __exit__
\* of the outer scope closes the client of a later scope, and if the inner
\* scope is the latest of the object both __exit__ calls close the inner
\* client.
C14_ExitClosesLatestClient ==
    /\ \A n \in 1..Len(trace) :
          trace[n].kind = "sdk_close" => ClosesLatest(n)
    /\ \A s, t \in Scopes : Reentered(s, t) =>
          /\ ClosesOn(scopes[s].handle, PosOf("sdk_ctor", t), Len(trace)) = {}
          /\ ClosesOn(scopes[s].handle, 1, PosOf("sdk_ctor", t)) = {} =>
                sdkClients[scopes[s].handle].closeCalls = 0
          /\ scopes[s].state = "left" =>
                /\ scopes[s].exitClient # scopes[s].handle
                /\ scopes[s].exitClient \in
                      {scopes[u].handle : u \in {v \in Entered : v > s}}
          /\ t = LatestScopeOn(scopes[t].inst) =>
                \A u \in {s, t} : scopes[u].state = "left" =>
                    scopes[u].exitClient = scopes[t].handle

\* both scopes of a nested use have been left, the outer one last
C14_Witness ==
    /\ Len(scopes) = 2 /\ Left = Scopes
    /\ Reentered(1, 2)
    /\ last.op = "leave" /\ last.scope = 1
    /\ sdkClients[1].closeCalls = 0
    /\ sdkClients[2].closeCalls = 2
    /\ scopes[1].exitClient = 2 /\ scopes[2].exitClient = 2

\* ---------------------------------------------------------------- C15
CountKind(kind) == Cardinality({n \in 1..Len(trace) : trace[n].kind = kind})

\* the event just before position n is a call of the given kind, made by the
\* same call on the same object, that returned without error
FollowsSuccessful(n, kind) ==
    /\ n > 1
    /\ trace[n - 1].kind = kind
    /\ trace[n - 1].ok
    /\ trace[n - 1].inst = trace[n].inst
    /\ trace[n - 1].scope = trace[n].scope

\* C15: "open connection" is printed only right after a constructor call
\* that returned, "close connection" only right after a close call that
\* returned; a constructor or close call that raised is followed by no print
\* of its call.  So there are as many "open connection" lines as clients
\* constructed and at most as many "close connection" lines as close calls.
C15_LogOnlyAfterSuccess ==
    /\ \A n \in 1..Len(trace) :
          /\ trace[n].kind = "print_open" => FollowsSuccessful(n, "sdk_ctor")
          /\ trace[n].kind = "print_close" => FollowsSuccessful(n, "sdk_close")
          /\ (trace[n].kind \in {"sdk_ctor", "sdk_close"} /\ ~trace[n].ok
                 /\ n < Len(trace)) =>
                trace[n + 1].kind \notin {"print_open", "print_close"}
    /\ CountKind("print_open") = Len(sdkClients)
    /\ CountKind("print_close") <= CountKind("sdk_close")
    /\ CountKind("print_close") =
          Cardinality({n \in 1..Len(trace) : trace[n].kind = "sdk_close" /\ trace[n].ok})

\* a failed constructor call and a failed close call, each followed by
\* another event, and fewer "close connection" lines than close calls
C15_Witness ==
    /\ \E n \in 1..(Len(trace) - 1) : trace[n].kind = "sdk_close" /\ ~trace[n].ok
    /\ \E n \in 1..(Len(trace) - 1) : trace[n].kind = "sdk_ctor" /\ ~trace[n].ok
    /\ CountKind("print_open") = 1
    /\ CountKind("print_close") = 1
    /\ CountKind("sdk_close") = 2
====
